---------------------------- MODULE Spec2Model ----------------------------
(***************************************************************************)
(* Shutdown orchestration and readiness gate of the HTTP server of         *)
(* Alzgaymer/k8s-test (func main, NewRoutes, NewServer, ReadinessHandler). *)
(*                                                                         *)
(* Processes: the main task (pc), the listener goroutine started by main   *)
(* (lpc), the health requests served by the transport (reqs), and the      *)
(* operating system delivering SIGINT/SIGTERM (sigCount).                  *)
(*                                                                         *)
(* Time is counted in ticks of one second.  The steps of main are          *)
(* instantaneous; the clock advances only while main is blocked in         *)
(* time.Sleep or inside s.Shutdown, and never past the moment the sleep    *)
(* or the deadline expires.                                                *)
(***************************************************************************)
EXTENDS Naturals, Integers, FiniteSets, Sequences, TLC

\* const block of main.go, in seconds.
_shutdownPeriod == 15
_shutdownHardPeriod == 3
_readinessDrainDelay == 5

\* Bounds of the model.
MaxReq == 2
MaxSignals == 2

Requests == 1..MaxReq

VARIABLES
    pc,               \* position of the main task
    proc,             \* the process: running, returned (main returned), killed (by a signal), panicked
    lpc,              \* position of the listener goroutine (go func() { ... s.ListenAndServe() })
    available,        \* ReadinessHandler.available
    rootCtxDone,      \* rootCtx of signal.NotifyContext is cancelled
    notifying,        \* SIGINT/SIGTERM are still relayed to rootCtx (stop() not yet called)
    ongoingCtxDone,   \* ongoingCtx (the server's BaseContext) is cancelled
    inShutdown,       \* http.Server.inShutdown, set by s.Shutdown
    lnerr,            \* error of closing the listener inside s.Shutdown
    err,              \* result of s.Shutdown in main
    elapsed,          \* ticks since main observed the signal
    shutdownCtxAge,   \* ticks since shutdownCtx was created by context.WithTimeout
    drainSlept,       \* ticks slept in time.Sleep(_readinessDrainDelay)
    hardSlept,        \* ticks slept in time.Sleep(_shutdownHardPeriod)
    cleanupCount,     \* number of invocations of cleanupTracer
    cleanupAt,        \* value of elapsed when cleanup was invoked (-1: not yet)
    cleanupCtxExpired,\* shutdownCtx was past its deadline when handed to cleanup
    cleanupLog,       \* status logged by logError in the cleanup closure
    reqs,             \* health requests
    sigCount,         \* signals delivered so far
    seqStarts,        \* number of times main entered the shutdown sequence
    tracer,           \* build inputs and outcome of newTracer
    listenRet,        \* what s.ListenAndServe returned in the listener goroutine
    cleanupErr        \* what cleanupTracer returned in the cleanup closure

vars == <<pc, proc, lpc, available, rootCtxDone, notifying, ongoingCtxDone, inShutdown,
          lnerr, err, elapsed, shutdownCtxAge, drainSlept, hardSlept,
          cleanupCount, cleanupAt, cleanupCtxExpired, cleanupLog, reqs, sigCount,
          seqStarts, tracer, listenRet, cleanupErr>>

-----------------------------------------------------------------------------
\* Pure parts of the code.

\* NewReadinessHandler: available.Store(true).
NewReadinessHandler == TRUE

\* Variant of MakeUnavailable that stores true.
MakeUnavailableStoresTrue(avail) == TRUE

\* MakeUnavailable: r.available.Store(false).
MakeUnavailable(avail) == FALSE

\* Variant of ServeHTTP that ignores the flag.
ServeHTTPAlwaysOK(avail) == [status |-> 200, body |-> "OK"]

\* ServeHTTP: the switch on r.available.Load(); http.Error(w, msg, code).
\* body is the message handed to http.Error.
ServeHTTP(avail) ==
    IF avail THEN [status |-> 200, body |-> "OK"]
             ELSE [status |-> 503, body |-> "Shutting down"]

\* Variant of ListenerPanics: the error is logged, the goroutine never panics.
ListenerPanicsNever(e) == FALSE

\* Variant of ListenerPanics: the test of http.ErrServerClosed is missing.
ListenerPanicsOnAnyError(e) == e # "nil"

\* The condition of the listener goroutine: err != nil && !errors.Is(err, http.ErrServerClosed).
ListenerPanics(e) == e # "nil" /\ e # "ErrServerClosed"

\* Variant of TakesHardPeriod: the sleep is taken whatever s.Shutdown returned.
TakesHardPeriodAlways(e) == TRUE

\* Variant of TakesHardPeriod: the sleep is never taken.
TakesHardPeriodNever(e) == FALSE

\* if err != nil after s.Shutdown: the hard-period sleep is taken.
TakesHardPeriod(e) == e # "nil"

\* logError in the cleanup closure: status " succeeded" / " failed".
logError(msg, e) == IF e # "nil" THEN msg \o " failed" ELSE msg \o " succeeded"

\* The process is running: main has not returned, no panic, not killed by a signal.
Alive == proc = "running"

\* A connection whose handler is running keeps s.Shutdown waiting.
ActiveConns == {r \in Requests : reqs[r].st = "loaded"}

-----------------------------------------------------------------------------
\* newTracer.

\* Values of the build variables Version and Commit (set with -ldflags).
Versions == {"v1"}
Commits == {"v1", "abc"}

\* The two newTracer of the repository: cmd/server/tracer.go (otlptracegrpc) and
\* the one next to main (otlptracehttp).
TracerFiles == {"grpc", "http"}

\* version := fmt.Sprintf("%s@%s", Commit, Version): the first verb takes the
\* first argument.
ServiceVersion(version, commit) == commit \o "@" \o version

\* newTracer of cmd/server/tracer.go: panics when resource.New fails; the error
\* of otlptracegrpc.New is assigned and not tested, the provider is built anyway.
newTracerGrpc(version, commit, resErr, expErr) ==
    IF resErr
      THEN [file |-> "grpc", panicked |-> TRUE, tp |-> "none", serviceVersion |-> "",
            version |-> version, commit |-> commit, resErr |-> resErr, expErr |-> FALSE]
      ELSE [file |-> "grpc", panicked |-> FALSE,
            tp |-> IF expErr THEN "on_failed_exporter" ELSE "configured",
            serviceVersion |-> ServiceVersion(version, commit),
            version |-> version, commit |-> commit, resErr |-> resErr, expErr |-> expErr]

\* newTracer next to main: panics when resource.New fails and when
\* otlptracehttp.New fails.
newTracerHttp(version, commit, resErr, expErr) ==
    IF resErr
      THEN [file |-> "http", panicked |-> TRUE, tp |-> "none", serviceVersion |-> "",
            version |-> version, commit |-> commit, resErr |-> resErr, expErr |-> FALSE]
      ELSE IF expErr
        THEN [file |-> "http", panicked |-> TRUE, tp |-> "none", serviceVersion |-> "",
              version |-> version, commit |-> commit, resErr |-> resErr, expErr |-> expErr]
        ELSE [file |-> "http", panicked |-> FALSE, tp |-> "configured",
              serviceVersion |-> ServiceVersion(version, commit),
              version |-> version, commit |-> commit, resErr |-> resErr, expErr |-> expErr]

\* The tracer of a process that started without a failure.
TracerConfigured == newTracerHttp("v1", "abc", FALSE, FALSE)

-----------------------------------------------------------------------------
Init ==
    /\ pc = "wait_signal"
    /\ proc = "running"
    /\ lpc = "start"
    /\ available = NewReadinessHandler
    /\ rootCtxDone = FALSE
    /\ notifying = TRUE
    /\ ongoingCtxDone = FALSE
    /\ inShutdown = FALSE
    /\ lnerr = "nil"
    /\ err = "unset"
    /\ elapsed = 0
    /\ shutdownCtxAge = 0
    /\ drainSlept = 0
    /\ hardSlept = 0
    /\ cleanupCount = 0
    /\ cleanupAt = -1
    /\ cleanupCtxExpired = FALSE
    /\ cleanupLog = ""
    /\ reqs = [r \in Requests |-> [st |-> "new", loaded |-> TRUE, afterUnready |-> FALSE,
                                   status |-> 0, body |-> ""]]
    /\ sigCount = 0
    /\ seqStarts = 0
    /\ tracer = TracerConfigured
    /\ listenRet = [err |-> "none", served |-> FALSE]
    /\ cleanupErr = "unset"

-----------------------------------------------------------------------------
\* The operating system.

\* Variant of Signal: every signal delivered once the sequence has begun starts
\* the sequence again.
SignalRestarts ==
    /\ Alive
    /\ sigCount < MaxSignals
    /\ sigCount' = sigCount + 1
    /\ rootCtxDone' = TRUE
    /\ IF seqStarts > 0
         THEN /\ pc' = "stop"
              /\ seqStarts' = seqStarts + 1
         ELSE UNCHANGED <<pc, seqStarts>>
    /\ UNCHANGED <<tracer, listenRet, cleanupErr, proc, lpc, available, notifying, ongoingCtxDone, inShutdown, lnerr, err,
                   elapsed, shutdownCtxAge, drainSlept, hardSlept, cleanupCount,
                   cleanupAt, cleanupCtxExpired, cleanupLog, reqs>>

\* Variant of Signal: ongoingCtx is derived from rootCtx, so the signal cancels it too.
SignalCancelsOngoing ==
    /\ Alive
    /\ sigCount < MaxSignals
    /\ sigCount' = sigCount + 1
    /\ IF notifying
         THEN /\ rootCtxDone' = TRUE
              /\ ongoingCtxDone' = TRUE
              /\ proc' = proc
         ELSE /\ proc' = "killed"
              /\ UNCHANGED <<rootCtxDone, ongoingCtxDone>>
    /\ UNCHANGED <<tracer, listenRet, cleanupErr, pc, lpc, available, notifying, inShutdown,
                   lnerr, err, elapsed, shutdownCtxAge, drainSlept, hardSlept, cleanupCount,
                   cleanupAt, cleanupCtxExpired, cleanupLog, reqs, seqStarts>>

\* A SIGINT or SIGTERM is delivered to the process.  While signal.NotifyContext
\* relays the signal it cancels rootCtx (a no-op when already cancelled); after
\* stop() nothing is registered for it, the default disposition applies and the
\* Go runtime exits the process.
Signal ==
    /\ Alive
    /\ sigCount < MaxSignals
    /\ sigCount' = sigCount + 1
    /\ IF notifying
         THEN /\ rootCtxDone' = TRUE
              /\ proc' = proc
         ELSE /\ proc' = "killed"
              /\ UNCHANGED rootCtxDone
    /\ UNCHANGED <<tracer, listenRet, cleanupErr, pc, lpc, available, notifying, ongoingCtxDone, inShutdown, lnerr, err,
                   elapsed, shutdownCtxAge, drainSlept, hardSlept, cleanupCount,
                   cleanupAt, cleanupCtxExpired, cleanupLog, reqs, seqStarts>>

\* One second passes while main is blocked in time.Sleep or in s.Shutdown.
Tick ==
    /\ Alive
    /\ \/ /\ pc = "drain"
          /\ drainSlept < _readinessDrainDelay
          /\ drainSlept' = drainSlept + 1
          /\ UNCHANGED <<hardSlept, shutdownCtxAge>>
       \/ /\ pc = "shutdown_wait"
          /\ ActiveConns # {}
          /\ shutdownCtxAge < _shutdownPeriod
          /\ shutdownCtxAge' = shutdownCtxAge + 1
          /\ UNCHANGED <<drainSlept, hardSlept>>
       \/ /\ pc = "hard"
          /\ hardSlept < _shutdownHardPeriod
          /\ hardSlept' = hardSlept + 1
          /\ shutdownCtxAge' = shutdownCtxAge + 1
          /\ UNCHANGED drainSlept
    /\ elapsed' = elapsed + 1
    /\ UNCHANGED <<tracer, listenRet, cleanupErr, proc, pc, lpc, available, rootCtxDone, notifying, ongoingCtxDone, inShutdown,
                   lnerr, err, cleanupCount, cleanupAt, cleanupCtxExpired, cleanupLog,
                   reqs, sigCount, seqStarts>>

-----------------------------------------------------------------------------
\* The listener goroutine of main.

\* s.ListenAndServe binds and starts accepting.
ListenerStart ==
    /\ Alive
    /\ lpc = "start"
    /\ ~inShutdown
    /\ lpc' = "serving"
    /\ UNCHANGED <<tracer, listenRet, cleanupErr, proc, pc, available, rootCtxDone, notifying, ongoingCtxDone, inShutdown,
                   lnerr, err, elapsed, shutdownCtxAge, drainSlept, hardSlept,
                   cleanupCount, cleanupAt, cleanupCtxExpired, cleanupLog, reqs,
                   sigCount, seqStarts>>

\* s.ListenAndServe returns e: the bind error, a permanent accept error, or
\* http.ErrServerClosed once s.Shutdown has been called.  The goroutine panics
\* unless e is ErrServerClosed, which aborts the process.
ListenAndServeReturns(e) ==
    /\ Alive
    /\ \/ e = "ErrServerClosed" /\ inShutdown /\ lpc \in {"start", "serving"}
       \/ e = "bind" /\ ~inShutdown /\ lpc = "start"
       \/ e = "accept" /\ ~inShutdown /\ lpc = "serving"
    /\ listenRet' = [err |-> e, served |-> (lpc = "serving")]
    /\ IF ListenerPanics(e)
         THEN /\ lpc' = "panicked"
              /\ proc' = "panicked"
         ELSE /\ lpc' = "returned"
              /\ proc' = proc
    /\ UNCHANGED <<tracer, cleanupErr, pc, available, rootCtxDone, notifying, ongoingCtxDone, inShutdown,
                   lnerr, err, elapsed, shutdownCtxAge, drainSlept, hardSlept,
                   cleanupCount, cleanupAt, cleanupCtxExpired, cleanupLog, reqs,
                   sigCount, seqStarts>>

-----------------------------------------------------------------------------
\* Health requests: GET /health served by ReadinessHandler.ServeHTTP, each on
\* its own goroutine.

\* The transport accepts request r and ServeHTTP reads r.available.Load().
ReqLoad(r) ==
    /\ Alive
    /\ lpc = "serving"
    /\ ~inShutdown
    /\ reqs[r].st = "new"
    /\ reqs' = [reqs EXCEPT ![r].st = "loaded",
                            ![r].loaded = available,
                            ![r].afterUnready = (pc \notin {"wait_signal", "stop", "unalive"})]
    /\ UNCHANGED <<tracer, listenRet, cleanupErr, proc, pc, lpc, available, rootCtxDone, notifying, ongoingCtxDone, inShutdown,
                   lnerr, err, elapsed, shutdownCtxAge, drainSlept, hardSlept,
                   cleanupCount, cleanupAt, cleanupCtxExpired, cleanupLog, sigCount,
                   seqStarts>>

\* ServeHTTP writes the response chosen by the switch and returns.
ReqRespond(r) ==
    /\ Alive
    /\ reqs[r].st = "loaded"
    /\ reqs' = [reqs EXCEPT ![r].st = "done",
                            ![r].status = ServeHTTP(reqs[r].loaded).status,
                            ![r].body = ServeHTTP(reqs[r].loaded).body]
    /\ UNCHANGED <<tracer, listenRet, cleanupErr, proc, pc, lpc, available, rootCtxDone, notifying, ongoingCtxDone, inShutdown,
                   lnerr, err, elapsed, shutdownCtxAge, drainSlept, hardSlept,
                   cleanupCount, cleanupAt, cleanupCtxExpired, cleanupLog, sigCount,
                   seqStarts>>

-----------------------------------------------------------------------------
\* The main task, from <-rootCtx.Done() to the return of main.

\* <-rootCtx.Done() returns: main has observed the signal.
WaitSignal ==
    /\ Alive
    /\ pc = "wait_signal"
    /\ rootCtxDone
    /\ pc' = "stop"
    /\ seqStarts' = seqStarts + 1
    /\ elapsed' = 0
    /\ UNCHANGED <<tracer, listenRet, cleanupErr, proc, lpc, available, rootCtxDone, notifying, ongoingCtxDone, inShutdown,
                   lnerr, err, shutdownCtxAge, drainSlept, hardSlept, cleanupCount,
                   cleanupAt, cleanupCtxExpired, cleanupLog, reqs, sigCount>>

\* Variant of Stop: the call of stop() is missing.
StopKeepsNotifying ==
    /\ Alive
    /\ pc = "stop"
    /\ pc' = "unalive"
    /\ UNCHANGED <<tracer, listenRet, cleanupErr, proc, lpc, available, rootCtxDone, notifying, ongoingCtxDone, inShutdown,
                   lnerr, err, elapsed, shutdownCtxAge, drainSlept, hardSlept, cleanupCount,
                   cleanupAt, cleanupCtxExpired, cleanupLog, reqs, sigCount, seqStarts>>

\* stop(): signal.Stop on the channel of NotifyContext.
Stop ==
    /\ Alive
    /\ pc = "stop"
    /\ notifying' = FALSE
    /\ pc' = "unalive"
    /\ UNCHANGED <<tracer, listenRet, cleanupErr, proc, lpc, available, rootCtxDone, ongoingCtxDone, inShutdown, lnerr, err,
                   elapsed, shutdownCtxAge, drainSlept, hardSlept, cleanupCount,
                   cleanupAt, cleanupCtxExpired, cleanupLog, reqs, sigCount, seqStarts>>

\* Variant of Unalive in which s.Shutdown is called before the drain delay.
UnaliveThenShutdown ==
    /\ Alive
    /\ pc = "unalive"
    /\ available' = MakeUnavailable(available)
    /\ pc' = "shutdown_wait"
    /\ inShutdown' = TRUE
    /\ UNCHANGED <<tracer, listenRet, cleanupErr, proc, lpc, rootCtxDone, notifying, ongoingCtxDone, lnerr, err,
                   elapsed, shutdownCtxAge, drainSlept, hardSlept, cleanupCount,
                   cleanupAt, cleanupCtxExpired, cleanupLog, reqs, sigCount, seqStarts>>

\* Variant of Unalive: the call of unaliveServer() is missing.
UnaliveSkipsFlip ==
    /\ Alive
    /\ pc = "unalive"
    /\ pc' = "drain"
    /\ UNCHANGED <<tracer, listenRet, cleanupErr, proc, lpc, available, rootCtxDone, notifying,
                   ongoingCtxDone, inShutdown, lnerr, err, elapsed, shutdownCtxAge,
                   drainSlept, hardSlept, cleanupCount, cleanupAt, cleanupCtxExpired,
                   cleanupLog, reqs, sigCount, seqStarts>>

\* unaliveServer(), which is rh.MakeUnavailable; then time.Sleep(_readinessDrainDelay) begins.
Unalive ==
    /\ Alive
    /\ pc = "unalive"
    /\ available' = MakeUnavailable(available)
    /\ pc' = "drain"
    /\ UNCHANGED <<tracer, listenRet, cleanupErr, proc, lpc, rootCtxDone, notifying, ongoingCtxDone, inShutdown, lnerr, err,
                   elapsed, shutdownCtxAge, drainSlept, hardSlept, cleanupCount,
                   cleanupAt, cleanupCtxExpired, cleanupLog, reqs, sigCount, seqStarts>>

\* Variant of ShutdownCall: the drain sleep uses _shutdownHardPeriod.
ShutdownCallWrongDelay ==
    /\ Alive
    /\ pc = "drain"
    /\ drainSlept = _shutdownHardPeriod
    /\ pc' = "shutdown_wait"
    /\ shutdownCtxAge' = 0
    /\ inShutdown' = TRUE
    /\ \E e \in {"nil", "closeErr"} :
         /\ e = "closeErr" => lpc = "serving"
         /\ lnerr' = e
    /\ UNCHANGED <<tracer, listenRet, cleanupErr, proc, lpc, available, rootCtxDone, notifying, ongoingCtxDone, err,
                   elapsed, drainSlept, hardSlept, cleanupCount, cleanupAt,
                   cleanupCtxExpired, cleanupLog, reqs, sigCount, seqStarts>>

\* Variant of ShutdownCall: stopOngoingGracefully() is called before s.Shutdown.
ShutdownCallCancelsOngoing ==
    /\ Alive
    /\ pc = "drain"
    /\ drainSlept = _readinessDrainDelay
    /\ pc' = "shutdown_wait"
    /\ shutdownCtxAge' = 0
    /\ inShutdown' = TRUE
    /\ ongoingCtxDone' = TRUE
    /\ \E e \in {"nil", "closeErr"} :
         /\ e = "closeErr" => lpc = "serving"
         /\ lnerr' = e
    /\ UNCHANGED <<tracer, listenRet, cleanupErr, proc, lpc, available, rootCtxDone, notifying, err,
                   elapsed, drainSlept, hardSlept, cleanupCount, cleanupAt,
                   cleanupCtxExpired, cleanupLog, reqs, sigCount, seqStarts>>

\* time.Sleep(_readinessDrainDelay) returns; shutdownCtx is created and
\* s.Shutdown(shutdownCtx) is entered: the server is marked in shutdown and its
\* listener is closed, which may fail with an error (closeErr).
ShutdownCall ==
    /\ Alive
    /\ pc = "drain"
    /\ drainSlept = _readinessDrainDelay
    /\ pc' = "shutdown_wait"
    /\ shutdownCtxAge' = 0
    /\ inShutdown' = TRUE
    /\ \E e \in {"nil", "closeErr"} :
         /\ e = "closeErr" => lpc = "serving"
         /\ lnerr' = e
    /\ UNCHANGED <<tracer, listenRet, cleanupErr, proc, lpc, available, rootCtxDone, notifying, ongoingCtxDone, err,
                   elapsed, drainSlept, hardSlept, cleanupCount, cleanupAt,
                   cleanupCtxExpired, cleanupLog, reqs, sigCount, seqStarts>>

\* Variant of ShutdownReturn: s.Shutdown is given a context without deadline.
ShutdownReturnIgnoresDeadline ==
    /\ Alive
    /\ pc = "shutdown_wait"
    /\ ActiveConns = {}
    /\ err' = lnerr
    /\ pc' = "stop_ongoing"
    /\ UNCHANGED <<tracer, listenRet, cleanupErr, proc, lpc, available, rootCtxDone, notifying,
                   ongoingCtxDone, inShutdown, lnerr, elapsed, shutdownCtxAge, drainSlept,
                   hardSlept, cleanupCount, cleanupAt, cleanupCtxExpired, cleanupLog, reqs,
                   sigCount, seqStarts>>

\* s.Shutdown returns: the listener's close error once no connection is active,
\* or the context's error once shutdownCtx has expired.
ShutdownReturn ==
    /\ Alive
    /\ pc = "shutdown_wait"
    /\ \/ /\ ActiveConns = {}
          /\ err' = lnerr
       \/ /\ shutdownCtxAge = _shutdownPeriod
          /\ err' = "DeadlineExceeded"
    /\ pc' = "stop_ongoing"
    /\ UNCHANGED <<tracer, listenRet, cleanupErr, proc, lpc, available, rootCtxDone, notifying, ongoingCtxDone, inShutdown,
                   lnerr, elapsed, shutdownCtxAge, drainSlept, hardSlept, cleanupCount,
                   cleanupAt, cleanupCtxExpired, cleanupLog, reqs, sigCount, seqStarts>>

\* stopOngoingGracefully(), then if err != nil the hard-period sleep begins.
StopOngoing ==
    /\ Alive
    /\ pc = "stop_ongoing"
    /\ ongoingCtxDone' = TRUE
    /\ pc' = IF TakesHardPeriod(err) THEN "hard" ELSE "cleanup"
    /\ UNCHANGED <<tracer, listenRet, cleanupErr, proc, lpc, available, rootCtxDone, notifying, inShutdown, lnerr, err,
                   elapsed, shutdownCtxAge, drainSlept, hardSlept, cleanupCount,
                   cleanupAt, cleanupCtxExpired, cleanupLog, reqs, sigCount, seqStarts>>

\* Variant of HardDone: main returns after the hard-period sleep.
HardDoneReturns ==
    /\ Alive
    /\ pc = "hard"
    /\ hardSlept = _shutdownHardPeriod
    /\ pc' = "return"
    /\ UNCHANGED <<tracer, listenRet, cleanupErr, proc, lpc, available, rootCtxDone, notifying, ongoingCtxDone, inShutdown,
                   lnerr, err, elapsed, shutdownCtxAge, drainSlept, hardSlept,
                   cleanupCount, cleanupAt, cleanupCtxExpired, cleanupLog, reqs,
                   sigCount, seqStarts>>

\* time.Sleep(_shutdownHardPeriod) returns.
HardDone ==
    /\ Alive
    /\ pc = "hard"
    /\ hardSlept = _shutdownHardPeriod
    /\ pc' = "cleanup"
    /\ UNCHANGED <<tracer, listenRet, cleanupErr, proc, lpc, available, rootCtxDone, notifying, ongoingCtxDone, inShutdown,
                   lnerr, err, elapsed, shutdownCtxAge, drainSlept, hardSlept,
                   cleanupCount, cleanupAt, cleanupCtxExpired, cleanupLog, reqs,
                   sigCount, seqStarts>>

\* Variant of Cleanup: the closure panics on an error of cleanupTracer.
CleanupPanicsOnError ==
    /\ Alive
    /\ pc = "cleanup"
    /\ cleanupCount' = cleanupCount + 1
    /\ cleanupAt' = elapsed
    /\ cleanupCtxExpired' = (shutdownCtxAge >= _shutdownPeriod)
    /\ \E e \in {"nil", "flushErr"} :
         /\ cleanupErr' = e
         /\ cleanupLog' = logError("cleanup tracer", e)
         /\ proc' = IF e # "nil" THEN "panicked" ELSE proc
    /\ pc' = "return"
    /\ UNCHANGED <<tracer, listenRet, lpc, available, rootCtxDone, notifying, ongoingCtxDone,
                   inShutdown, lnerr, err, elapsed, shutdownCtxAge, drainSlept, hardSlept,
                   reqs, sigCount, seqStarts>>

\* Variant of Cleanup: cleanup is handed a fresh context with its own deadline.
CleanupFreshContext ==
    /\ Alive
    /\ pc = "cleanup"
    /\ cleanupCount' = cleanupCount + 1
    /\ cleanupAt' = elapsed
    /\ cleanupCtxExpired' = FALSE
    /\ \E e \in {"nil", "flushErr"} :
         /\ cleanupErr' = e
         /\ cleanupLog' = logError("cleanup tracer", e)
    /\ pc' = "return"
    /\ UNCHANGED <<tracer, listenRet, proc, lpc, available, rootCtxDone, notifying,
                   ongoingCtxDone, inShutdown, lnerr, err, elapsed, shutdownCtxAge,
                   drainSlept, hardSlept, reqs, sigCount, seqStarts>>

\* cleanup(shutdownCtx): the closure of NewRoutes calls cleanupTracer(ctx), which
\* returns nil or an error e, and logs the status.
Cleanup ==
    /\ Alive
    /\ pc = "cleanup"
    /\ cleanupCount' = cleanupCount + 1
    /\ cleanupAt' = elapsed
    /\ cleanupCtxExpired' = (shutdownCtxAge >= _shutdownPeriod)
    /\ \E e \in {"nil", "flushErr"} :
         /\ cleanupErr' = e
         /\ cleanupLog' = logError("cleanup tracer", e)
    /\ pc' = "return"
    /\ UNCHANGED <<tracer, listenRet, proc, lpc, available, rootCtxDone, notifying, ongoingCtxDone, inShutdown,
                   lnerr, err, elapsed, shutdownCtxAge, drainSlept, hardSlept, reqs,
                   sigCount, seqStarts>>

\* main returns (the deferred cancel() and stop() run) and the process exits.
Return ==
    /\ Alive
    /\ pc = "return"
    /\ pc' = "Terminated"
    /\ proc' = "returned"
    /\ notifying' = FALSE
    /\ UNCHANGED <<tracer, listenRet, cleanupErr, lpc, available, rootCtxDone, ongoingCtxDone, inShutdown, lnerr, err,
                   elapsed, shutdownCtxAge, drainSlept, hardSlept, cleanupCount,
                   cleanupAt, cleanupCtxExpired, cleanupLog, reqs, sigCount, seqStarts>>

-----------------------------------------------------------------------------
\* Startup: main up to the call of NewRoutes, which calls newTracer.

InitStartup ==
    /\ pc = "new_routes"
    /\ proc = "running"
    /\ lpc = "not_started"
    /\ available = FALSE
    /\ rootCtxDone = FALSE
    /\ notifying = TRUE
    /\ ongoingCtxDone = FALSE
    /\ inShutdown = FALSE
    /\ lnerr = "nil"
    /\ err = "unset"
    /\ elapsed = 0
    /\ shutdownCtxAge = 0
    /\ drainSlept = 0
    /\ hardSlept = 0
    /\ cleanupCount = 0
    /\ cleanupAt = -1
    /\ cleanupCtxExpired = FALSE
    /\ cleanupLog = ""
    /\ reqs = [r \in Requests |-> [st |-> "new", loaded |-> TRUE, afterUnready |-> FALSE,
                                   status |-> 0, body |-> ""]]
    /\ sigCount = 0
    /\ seqStarts = 0
    /\ \E f \in TracerFiles, v \in Versions, c \in Commits :
         tracer = [file |-> f, panicked |-> FALSE, tp |-> "none", serviceVersion |-> "",
                   version |-> v, commit |-> c, resErr |-> FALSE, expErr |-> FALSE]
    /\ listenRet = [err |-> "none", served |-> FALSE]
    /\ cleanupErr = "unset"

\* NewRoutes(ongoingCtx): newTracer(ctx), where resource.New and the exporter's
\* New succeed or fail, then NewReadinessHandler; a panic aborts the process.
\* NewServer and the go statement of the listener follow.
NewRoutes ==
    /\ Alive
    /\ pc = "new_routes"
    /\ \E resErr \in BOOLEAN, expErr \in BOOLEAN :
         tracer' = IF tracer.file = "grpc"
                     THEN newTracerGrpc(tracer.version, tracer.commit, resErr, expErr)
                     ELSE newTracerHttp(tracer.version, tracer.commit, resErr, expErr)
    /\ IF tracer'.panicked
         THEN /\ proc' = "panicked"
              /\ UNCHANGED <<pc, lpc, available>>
         ELSE /\ pc' = "wait_signal"
              /\ lpc' = "start"
              /\ available' = NewReadinessHandler
              /\ proc' = proc
    /\ UNCHANGED <<rootCtxDone, notifying, ongoingCtxDone, inShutdown, lnerr, err,
                   elapsed, shutdownCtxAge, drainSlept, hardSlept, cleanupCount,
                   cleanupAt, cleanupCtxExpired, cleanupLog, reqs, sigCount, seqStarts,
                   listenRet, cleanupErr>>

-----------------------------------------------------------------------------
Next ==
    \/ Signal
    \/ Tick
    \/ ListenerStart
    \/ \E e \in {"ErrServerClosed", "bind", "accept"} : ListenAndServeReturns(e)
    \/ \E r \in Requests : ReqLoad(r)
    \/ \E r \in Requests : ReqRespond(r)
    \/ WaitSignal
    \/ Stop
    \/ Unalive
    \/ ShutdownCall
    \/ ShutdownReturn
    \/ StopOngoing
    \/ HardDone
    \/ Cleanup
    \/ Return

Spec == Init /\ [][Next]_vars

\* The process from its start.
NextStartup ==
    \/ NewRoutes
    \/ Next

StartupSpec == InitStartup /\ [][NextStartup]_vars

\* The steps of the main task.
MainStep ==
    \/ WaitSignal
    \/ Stop
    \/ Unalive
    \/ ShutdownCall
    \/ ShutdownReturn
    \/ StopOngoing
    \/ HardDone
    \/ Cleanup
    \/ Return

\* The main task is scheduled whenever it can take a step and time passes while
\* it is blocked; nothing is assumed of the handlers, the listener or the signals.
FairSpec == Init /\ [][Next]_vars /\ WF_vars(MainStep) /\ WF_vars(Tick)

-----------------------------------------------------------------------------
\* Positions of main.
BeforeUnready == {"wait_signal", "stop", "unalive"}

\* C1: in the shutdown sequence of main the drain delay has fully elapsed before
\* s.Shutdown is invoked, s.Shutdown has returned before any hard-period wait
\* begins, tracer cleanup is invoked after both, and a main that returns has
\* run cleanup, on the normal and on the timeout path.
ShutdownOrdering ==
    /\ inShutdown => drainSlept = _readinessDrainDelay
    /\ (pc = "hard" \/ hardSlept > 0) => (inShutdown /\ err # "unset")
    /\ cleanupCount > 0 =>
         /\ drainSlept = _readinessDrainDelay
         /\ err # "unset"
         /\ TakesHardPeriod(err) => hardSlept = _shutdownHardPeriod
    /\ proc = "returned" => cleanupCount > 0

\* Witness of C1: main returned on the timeout path, after the hard-period wait and cleanup.
ShutdownOrderingWitness ==
    /\ proc = "returned"
    /\ err = "DeadlineExceeded"
    /\ hardSlept = _shutdownHardPeriod
    /\ cleanupCount = 1

\* C2: the readiness flag starts true and is monotonic: once MakeUnavailable has
\* stored false it is never true again, every read after MakeUnavailable, by any
\* request, returns false, and a second MakeUnavailable changes nothing.
ReadinessMonotonic ==
    /\ [](/\ pc \in BeforeUnready => available = TRUE
          /\ pc \notin BeforeUnready => available = FALSE
          /\ \A r \in Requests :
               (reqs[r].st # "new" /\ reqs[r].afterUnready) => reqs[r].loaded = FALSE
          /\ MakeUnavailable(MakeUnavailable(available)) = MakeUnavailable(available))
    /\ [][available = FALSE => available' = FALSE]_vars

\* Witness of C2: a request has read the flag after MakeUnavailable.
ReadinessMonotonicWitness ==
    \E r \in Requests : reqs[r].st = "done" /\ reqs[r].afterUnready /\ ~available

\* C3: the health handler has exactly two outcomes, decided by the readiness flag
\* alone: a request that reads the flag before MakeUnavailable is answered 200 "OK",
\* every request that reads it after MakeUnavailable is answered 503 "Shutting down".
HealthOutcomes ==
    \A r \in Requests :
        reqs[r].st = "done" =>
            /\ <<reqs[r].status, reqs[r].body>> \in {<<200, "OK">>, <<503, "Shutting down">>}
            /\ reqs[r].afterUnready => <<reqs[r].status, reqs[r].body>> = <<503, "Shutting down">>
            /\ ~reqs[r].afterUnready => <<reqs[r].status, reqs[r].body>> = <<200, "OK">>

\* Witness of C3: one request answered 200 before the flip and one answered 503 after it.
HealthOutcomesWitness ==
    \E r, q \in Requests :
        /\ reqs[r].st = "done" /\ ~reqs[r].afterUnready /\ reqs[r].status = 200
        /\ reqs[q].st = "done" /\ reqs[q].afterUnready /\ reqs[q].status = 503

\* Positions of main at which stop() has not yet been called.
BeforeStop == {"wait_signal", "stop"}

\* C4 as stated: when the process has ended after a second signal, tracer cleanup
\* has been invoked exactly once.
SecondSignalCleanupStaysOne ==
    (proc \in {"killed", "returned"} /\ sigCount >= 2) => cleanupCount = 1

\* C4, amended: a further signal delivered once the sequence has begun neither
\* restarts the sequence nor invokes tracer cleanup; the sequence starts at most
\* once and the cleanup count never exceeds 1, and it is 0 when the signal ended
\* the process before cleanup.
SecondSignalNoRestart ==
    /\ [](/\ seqStarts <= 1
          /\ cleanupCount <= 1
          /\ proc = "killed" => cleanupCount = (IF pc = "return" THEN 1 ELSE 0))
    /\ [][(sigCount' # sigCount /\ seqStarts >= 1) =>
            (seqStarts' = seqStarts /\ cleanupCount' = cleanupCount /\ pc' = pc)]_vars

\* Witness of C4: a second signal arrived during the drain delay; cleanup never ran.
SecondSignalNoRestartWitness ==
    /\ sigCount = 2
    /\ seqStarts = 1
    /\ proc = "killed"
    /\ pc = "drain"
    /\ cleanupCount = 0

\* C5 as stated: whenever the process ends by a signal or by main returning, the
\* full drain delay has elapsed, s.Shutdown has returned and cleanup has run.
SequenceRunsToCleanup ==
    proc \in {"killed", "returned"} =>
        /\ drainSlept = _readinessDrainDelay
        /\ err # "unset"
        /\ cleanupCount = 1

\* C5, amended: a signal delivered before main has called stop() leaves the
\* sequence untouched; a signal delivered after stop() ends the process at once,
\* whatever step is running; a main that returns has run the full drain delay,
\* s.Shutdown and cleanup.
SecondSignalAfterStopKills ==
    /\ [](/\ proc = "returned" =>
               (drainSlept = _readinessDrainDelay /\ err # "unset" /\ cleanupCount = 1)
          /\ proc = "killed" => (pc \notin BeforeStop /\ sigCount >= 2))
    /\ [][sigCount' # sigCount =>
            IF pc \in BeforeStop THEN proc' = proc /\ pc' = pc
                                 ELSE proc' = "killed"]_vars

\* Witness of C5: the drain delay was cut short by a signal.
SecondSignalAfterStopKillsWitness ==
    /\ proc = "killed"
    /\ pc = "drain"
    /\ 0 < drainSlept
    /\ drainSlept < _readinessDrainDelay

\* C6: tracer cleanup is invoked exactly once by the time main has returned, on
\* the normal path and on the timeout path, and never twice.
CleanupExactlyOnce ==
    /\ cleanupCount <= 1
    /\ proc = "returned" => (cleanupCount = 1 /\ err \in {"nil", "closeErr", "DeadlineExceeded"})

\* Witness of C6: main returned on the normal path.
CleanupExactlyOnceWitness ==
    /\ proc = "returned"
    /\ err = "nil"
    /\ cleanupCount = 1

\* C7 as stated: the hard-period wait starts only if the deadline was exceeded.
HardOnlyAfterDeadline ==
    (pc = "hard" \/ hardSlept > 0) => err = "DeadlineExceeded"

\* C7, amended: the hard-period wait starts only if s.Shutdown returned a non-nil
\* error; when s.Shutdown returns nil main does not sleep and goes to cleanup.
HardOnlyAfterShutdownError ==
    /\ (pc = "hard" \/ hardSlept > 0) => err \in {"closeErr", "DeadlineExceeded"}
    /\ err = "nil" => (pc \in {"stop_ongoing", "cleanup", "return", "Terminated"} /\ hardSlept = 0)
    /\ (err = "nil" /\ cleanupCount > 0) => cleanupAt = _readinessDrainDelay + shutdownCtxAge

\* Witness of C7: s.Shutdown waited for a handler, returned nil within the
\* deadline, and cleanup ran without a hard-period sleep.
HardOnlyAfterShutdownErrorWitness ==
    /\ err = "nil"
    /\ 0 < shutdownCtxAge
    /\ shutdownCtxAge < _shutdownPeriod
    /\ cleanupCount = 1
    /\ hardSlept = 0

\* C8: if s.Shutdown does not return within the deadline, the hard-period wait is
\* taken in full, and tracer cleanup is invoked after it, exactly once.
TimeoutTakesHardThenCleanup ==
    err = "DeadlineExceeded" =>
        /\ pc \in {"stop_ongoing", "hard", "cleanup", "return", "Terminated"}
        /\ (pc \in {"cleanup", "return", "Terminated"} \/ cleanupCount > 0) =>
               hardSlept = _shutdownHardPeriod
        /\ cleanupCount <= 1
        /\ proc = "returned" => cleanupCount = 1

\* Witness of C8: a handler never finished, and main returned after the hard wait and cleanup.
TimeoutTakesHardThenCleanupWitness ==
    /\ err = "DeadlineExceeded"
    /\ \E r \in Requests : reqs[r].st = "loaded"
    /\ hardSlept = _shutdownHardPeriod
    /\ cleanupCount = 1
    /\ proc = "returned"

\* C9: the time between main observing the signal and the invocation of tracer
\* cleanup is at least the drain delay and at most drain delay + graceful period
\* + hard period.
CleanupWithinBounds ==
    cleanupCount > 0 =>
        /\ cleanupAt >= _readinessDrainDelay
        /\ cleanupAt <= _readinessDrainDelay + _shutdownPeriod + _shutdownHardPeriod

\* Witness of C9: cleanup invoked at the upper bound.
CleanupWithinBoundsWitness ==
    /\ cleanupCount = 1
    /\ cleanupAt = _readinessDrainDelay + _shutdownPeriod + _shutdownHardPeriod

\* C10 as stated: ongoingCtx is cancelled only after the hard-period wait (when
\* taken) has finished and tracer cleanup has been invoked.
OngoingCancelledAfterCleanup ==
    ongoingCtxDone =>
        /\ cleanupCount > 0
        /\ TakesHardPeriod(err) => hardSlept = _shutdownHardPeriod

\* C10, amended: ongoingCtx is cancelled only after s.Shutdown has returned, never
\* by signal delivery, and it is cancelled before the hard-period wait begins and
\* before tracer cleanup is invoked.
OngoingCancelledAfterShutdownReturns ==
    /\ ongoingCtxDone => (inShutdown /\ err # "unset")
    /\ pc \in {"wait_signal", "stop", "unalive", "drain", "shutdown_wait", "stop_ongoing"} =>
           ~ongoingCtxDone
    /\ (pc = "hard" \/ hardSlept > 0 \/ cleanupCount > 0) => ongoingCtxDone

\* Witness of C10: ongoingCtx is cancelled, the hard-period wait has not begun to
\* elapse and cleanup has not run.
OngoingCancelledAfterShutdownReturnsWitness ==
    /\ ongoingCtxDone
    /\ pc = "hard"
    /\ hardSlept = 0
    /\ cleanupCount = 0

\* C12: a failure to construct the tracing resource or the tracing exporter
\* aborts the process in NewRoutes, and no tracer provider is ever built on a
\* failed exporter.
TracerFailureIsFatal ==
    /\ (tracer.resErr \/ tracer.expErr) => (proc = "panicked" /\ pc = "new_routes")
    /\ tracer.tp # "on_failed_exporter"

\* C15: the service version of the tracer's resource is Version, then "@", then Commit.
ServiceVersionIsVersionAtCommit ==
    tracer.tp # "none" => tracer.serviceVersion = tracer.version \o "@" \o tracer.commit

\* C11: while main waits for the signal, drains, or is inside s.Shutdown, ongoingCtx
\* is not cancelled; delivery of a signal and cancellation of rootCtx never cancel
\* it; it is cancelled only by main, once s.Shutdown has returned.
OngoingLiveUntilShutdownReturns ==
    /\ [](pc \in {"wait_signal", "stop", "unalive", "drain", "shutdown_wait"} => ~ongoingCtxDone)
    /\ [][(sigCount' # sigCount \/ rootCtxDone' # rootCtxDone) =>
            ongoingCtxDone' = ongoingCtxDone]_vars
    /\ [][ongoingCtxDone' # ongoingCtxDone => (pc = "stop_ongoing" /\ err # "unset")]_vars

\* Witness of C11: inside s.Shutdown, a handler still running on a live ongoingCtx.
OngoingLiveUntilShutdownReturnsWitness ==
    /\ pc = "shutdown_wait"
    /\ rootCtxDone
    /\ shutdownCtxAge > 0
    /\ ActiveConns # {}
    /\ ~ongoingCtxDone

\* Errors of s.ListenAndServe other than http.ErrServerClosed.
ListenFailures == {"bind", "accept"}

\* C13: a failure of s.ListenAndServe other than server-closed aborts the process,
\* and after it main executes no step: no drain delay, no s.Shutdown, no cleanup.
ListenFailureAborts ==
    /\ [](listenRet.err \in ListenFailures => (proc = "panicked" /\ lpc = "panicked"))
    /\ [][listenRet.err \in ListenFailures =>
            /\ pc' = pc
            /\ drainSlept' = drainSlept
            /\ inShutdown' = inShutdown
            /\ cleanupCount' = cleanupCount]_vars
    /\ [][(listenRet'.err \in ListenFailures /\ listenRet.err = "none") =>
            (proc' = "panicked" /\ pc' = pc /\ cleanupCount' = cleanupCount)]_vars

\* Witness of C13: the bind failed before any signal; nothing of the sequence ran.
ListenFailureAbortsWitness ==
    /\ listenRet.err = "bind"
    /\ proc = "panicked"
    /\ pc = "wait_signal"
    /\ available
    /\ drainSlept = 0
    /\ ~inShutdown
    /\ cleanupCount = 0

\* C14: the result of tracer cleanup, nil or an error, is logged with its status
\* and not escalated: the closure returns, and main returns as it does after a
\* successful cleanup.
CleanupErrorNotEscalated ==
    cleanupCount > 0 =>
        /\ cleanupErr \in {"nil", "flushErr"}
        /\ cleanupLog = (IF cleanupErr = "nil" THEN "cleanup tracer succeeded"
                                                ELSE "cleanup tracer failed")
        /\ proc # "panicked"
        /\ pc \in {"return", "Terminated"}
        /\ pc = "Terminated" <=> proc = "returned"

\* Witness of C14: cleanup failed and main returned.
CleanupErrorNotEscalatedWitness ==
    /\ cleanupErr = "flushErr"
    /\ cleanupLog = "cleanup tracer failed"
    /\ proc = "returned"

\* C16 as stated: once main has observed the signal, main eventually returns.
SignalLeadsToTerminated ==
    (seqStarts = 1) ~> (proc = "returned")

\* C16, amended: once main has observed the signal the process eventually ends,
\* also when handlers never finish: main returns after the drain delay, s.Shutdown,
\* the hard wait when taken, and cleanup, unless a signal or a listener failure
\* ends the process before.
SignalLeadsToProcessEnd ==
    /\ (seqStarts = 1) ~> (proc # "running")
    /\ [](proc = "returned" =>
            /\ drainSlept = _readinessDrainDelay
            /\ err # "unset"
            /\ TakesHardPeriod(err) => hardSlept = _shutdownHardPeriod
            /\ cleanupCount = 1)
    /\ [](proc # "running" =>
            \/ proc = "returned"
            \/ proc = "killed" /\ ~notifying
            \/ proc = "panicked" /\ listenRet.err \in ListenFailures)

\* Witness of C16: main returned while every handler was still running.
SignalLeadsToProcessEndWitness ==
    /\ proc = "returned"
    /\ ActiveConns = Requests
    /\ cleanupCount = 1

\* C17: when the transport has stopped accepting because of s.Shutdown, the
\* readiness flag is false and the full drain delay has elapsed; during the drain
\* delay the transport still accepts, and a health request arriving then is
\* answered 503.
DrainBeforeListenerCloses ==
    /\ inShutdown => (~available /\ drainSlept = _readinessDrainDelay)
    /\ pc = "drain" => ~inShutdown
    /\ \A r \in Requests :
         /\ (pc = "drain" /\ Alive /\ lpc = "serving" /\ reqs[r].st = "new") => ENABLED ReqLoad(r)
         /\ (pc = "drain" /\ reqs[r].st # "new" /\ reqs[r].afterUnready) => ~reqs[r].loaded
         /\ (pc = "drain" /\ reqs[r].st = "done" /\ reqs[r].afterUnready) =>
                (reqs[r].status = 503 /\ reqs[r].body = "Shutting down")

\* Witness of C17: a health request arrived during the drain delay and got 503.
DrainBeforeListenerClosesWitness ==
    /\ pc = "drain"
    /\ drainSlept > 0
    /\ ~inShutdown
    /\ \E r \in Requests : reqs[r].st = "done" /\ reqs[r].afterUnready /\ reqs[r].status = 503

\* C18: tracer cleanup is handed shutdownCtx, whose budget started when s.Shutdown
\* was called: it is expired at the invocation of cleanup exactly when the graceful
\* period has passed since then, and always on the path where the deadline expired.
CleanupGetsShutdownCtx ==
    cleanupCount > 0 =>
        /\ cleanupCtxExpired <=> (cleanupAt - _readinessDrainDelay >= _shutdownPeriod)
        /\ err = "DeadlineExceeded" => cleanupCtxExpired

\* Witness of C18: cleanup invoked with the expired context after the hard wait.
CleanupGetsShutdownCtxWitness ==
    /\ cleanupCount = 1
    /\ err = "DeadlineExceeded"
    /\ hardSlept = _shutdownHardPeriod
    /\ cleanupCtxExpired

\* C19: the listener goroutine aborts the process only for errors other than
\* server-closed: http.ErrServerClosed, returned because main called s.Shutdown,
\* also before the listener had started, leaves the process and main untouched,
\* and main goes on to cleanup.
ServerClosedNeverAborts ==
    /\ [](/\ listenRet.err = "ErrServerClosed" => (lpc = "returned" /\ proc # "panicked" /\ inShutdown)
          /\ proc = "panicked" => listenRet.err \in ListenFailures
          /\ (listenRet.err = "ErrServerClosed" /\ proc = "returned") => cleanupCount = 1)
    /\ [][(listenRet'.err = "ErrServerClosed" /\ listenRet.err = "none") =>
            (proc' = proc /\ pc' = pc)]_vars

\* Witness of C19: the signal was observed before the listener started; the
\* listener goroutine got server-closed and main returned after cleanup.
ServerClosedNeverAbortsWitness ==
    /\ listenRet = [err |-> "ErrServerClosed", served |-> FALSE]
    /\ proc = "returned"
    /\ cleanupCount = 1

=============================================================================
